---- MODULE Spec2Model ----
(***************************************************************************)
(* toronto-covid: src/main.rs.  The program reads a neighbourhood boundary *)
(* collection, a list of COVID case records and a wide census table,       *)
(* counts the cases per neighbourhood, extracts the 2016 population row,   *)
(* and writes the boundary collection back with the two numbers inserted   *)
(* into every feature's property bag.  Names are joined after              *)
(* neighbourhood_names_normalizer (and, for boundary names, a truncation   *)
(* at the first " (").                                                     *)
(*                                                                         *)
(* Strings are TLA+ strings, i.e. sequences of characters: Len, SubSeq and *)
(* \o act on them.  Option<T> and Result<T, ()> are sequences of length at *)
(* most one.  HashMap and serde_json::Map are functions on their key set.  *)
(***************************************************************************)
EXTENDS Integers, Sequences, FiniteSets, TLC

(***************************************************************************)
(* Bounds of the model.                                                    *)
(***************************************************************************)
MaxRows == 2
MaxRecords == 2
MaxFeatures == 2
MaxAggRecords == 3
MaxCells == 2

(***************************************************************************)
(* Option / Result.                                                        *)
(***************************************************************************)
None == <<>>
Some(x) == <<x>>
IsSome(o) == Len(o) = 1
IsNone(o) == Len(o) = 0
Unwrapped(o) == o[1]

(***************************************************************************)
(* HashMap<K, V> / serde_json::Map<String, Value>.                         *)
(***************************************************************************)
EmptyMap == [k \in {} |-> 0]

\* A lookup that never misses: an absent key reads as 0.
MapGetOrZero(m, k) == IF k \in DOMAIN m THEN Some(m[k]) ELSE Some(0)

\* HashMap::get: Some(value) if the key is present, None otherwise.
MapGet(m, k) == IF k \in DOMAIN m THEN Some(m[k]) ELSE None

\* insert: the key is bound to v, replacing any value it had.
MapInsert(m, k, v) == [x \in DOMAIN m \cup {k} |-> IF x = k THEN v ELSE m[x]]

(***************************************************************************)
(* str operations.                                                         *)
(***************************************************************************)
RECURSIVE FindFrom(_, _, _)
\* The least index >= i at which pat occurs in s, 0 if there is none.
FindFrom(s, pat, i) ==
    IF i + Len(pat) - 1 > Len(s) THEN 0
    ELSE IF SubSeq(s, i, i + Len(pat) - 1) = pat THEN i
    ELSE FindFrom(s, pat, i + 1)

\* s.split(pat).next(): the part of s before the first pat, s if none.
SplitFirst(s, pat) ==
    LET at == FindFrom(s, pat, 1)
    IN  IF at = 0 THEN s ELSE SubSeq(s, 1, at - 1)

RECURSIVE Replace(_, _, _)
\* s.replace(from, to): every non-overlapping occurrence, left to right.
Replace(s, from, to) ==
    IF Len(s) < Len(from) THEN s
    ELSE IF SubSeq(s, 1, Len(from)) = from
         THEN to \o Replace(SubSeq(s, Len(from) + 1, Len(s)), from, to)
         ELSE SubSeq(s, 1, 1) \o Replace(SubSeq(s, 2, Len(s)), from, to)

Digits == {"0", "1", "2", "3", "4", "5", "6", "7", "8", "9"}

DigitVal(c) ==
    CASE c = "0" -> 0 [] c = "1" -> 1 [] c = "2" -> 2 [] c = "3" -> 3
      [] c = "4" -> 4 [] c = "5" -> 5 [] c = "6" -> 6 [] c = "7" -> 7
      [] c = "8" -> 8 [] c = "9" -> 9

\* u32::MAX = 4294967295 = 10 * U32MaxDiv10 + U32MaxMod10.
U32MaxDiv10 == 429496729
U32MaxMod10 == 5

RECURSIVE ParseDigits(_, _)
\* The digit loop of u32::from_str: acc.checked_mul(10)?.checked_add(d)?,
\* an Err on a character that is no digit and on overflow.
ParseDigits(s, acc) ==
    IF s = "" THEN Some(acc)
    ELSE LET c == SubSeq(s, 1, 1)
         IN  IF c \notin Digits THEN None
             ELSE IF \/ acc > U32MaxDiv10
                     \/ acc = U32MaxDiv10 /\ DigitVal(c) > U32MaxMod10
                  THEN None
                  ELSE ParseDigits(SubSeq(s, 2, Len(s)), acc * 10 + DigitVal(c))

\* str::parse::<u32>().ok(): an optional leading '+', then one or more
\* ASCII digits whose value fits 32 bits.
ParseU32(s) ==
    IF s = "" THEN None
    ELSE LET body == IF SubSeq(s, 1, 1) = "+" THEN SubSeq(s, 2, Len(s)) ELSE s
         IN  IF body = "" THEN None ELSE ParseDigits(body, 0)

\* A comma removal that was forgotten.
StripCommasNot(pop) == pop

\* pop.replace(",", "")
StripCommas(pop) == Replace(pop, ",", "")

(***************************************************************************)
(* The name normalizer and the name list.                                  *)
(***************************************************************************)
\* The arms of the match in neighbourhood_names_normalizer, in order.
NameVariantMap ==
    << <<"Weston-Pellam Park", "Weston-Pelham Park">>,
       <<"Briar Hill - Belgravia", "Briar Hill-Belgravia">>,
       <<"Cabbagetown-South St.James Town", "Cabbagetown-South St. James Town">>,
       <<"North St.James Town", "North St. James Town">>,
       <<"Mimico (includes Humber Bay Shores)", "Mimico">>,
       <<"Danforth East York", "Danforth-East York">> >>

\* The match with every arm also read right to left.
neighbourhood_names_normalizer_both_ways(name) ==
    IF \E a \in 1..Len(NameVariantMap) : NameVariantMap[a][1] = name
    THEN NameVariantMap[CHOOSE a \in 1..Len(NameVariantMap) :
                            NameVariantMap[a][1] = name][2]
    ELSE IF \E a \in 1..Len(NameVariantMap) : NameVariantMap[a][2] = name
    THEN NameVariantMap[CHOOSE a \in 1..Len(NameVariantMap) :
                            NameVariantMap[a][2] = name][1]
    ELSE name

\* match name { variant => canonical, ..., _ => name }
neighbourhood_names_normalizer(name) ==
    IF \E a \in 1..Len(NameVariantMap) : NameVariantMap[a][1] = name
    THEN NameVariantMap[CHOOSE a \in 1..Len(NameVariantMap) :
                            /\ NameVariantMap[a][1] = name
                            /\ \A b \in 1..(a - 1) : NameVariantMap[b][1] # name][2]
    ELSE name

\* const NEIGHBOURHOOD_NAMES: [&str; 141]
NEIGHBOURHOOD_NAMES == <<
    "Lambton Baby Point", "Yonge-Eglinton", "Ionview", "Flemingdon Park",
    "Banbury-Don Mills", "Mount Dennis", "Alderwood", "Clanton Park",
    "Bay Street Corridor", "Don Valley Village", "Bridle Path-Sunnybrook-York Mills",
    "Downsview-Roding-CFB", "Clairlea-Birchmount", "North Riverdale",
    "Mount Pleasant West", "Westminster-Branson", "Eringate-Centennial-West Deane",
    "Oakridge", "Tam O'Shanter-Sullivan", "South Riverdale", "Birchcliffe-Cliffside",
    "Palmerston-Little Italy", "Kingsview Village-The Westway", "Morningside",
    "Oakwood Village", "Runnymede-Bloor West Village", "Princess-Rosethorn",
    "Kensington-Chinatown", "O'Connor-Parkview", "Agincourt North",
    "Lawrence Park North", "Dorset Park", "Wychwood", "Yonge-St.Clair",
    "Kingsway South", "Parkwoods-Donalda", "Rexdale-Kipling", "Church-Yonge Corridor",
    "Brookhaven-Amesbury", "Bayview Village", "Humber Heights-Westmount",
    "Bayview Woods-Steeles", "Niagara", "Long Branch", "Leaside-Bennington",
    "St.Andrew-Windfields", "Corso Italia-Davenport", "Wexford/Maryvale", "Cliffcrest",
    "Steeles", "Broadview North", "Etobicoke West Mall", "L'Amoreaux",
    "South Parkdale", "Willowdale East", "Bedford Park-Nortown",
    "North St. James Town", "Woodbine Corridor", "Playter Estates-Danforth",
    "Lawrence Park South", "Casa Loma", "Scarborough Village",
    "Edenbridge-Humber Valley", "Beechborough-Greenbrook", "Pleasant View", "Danforth",
    "Old East York", "Islington-City Centre West", "Humewood-Cedarvale",
    "York University Heights", "Taylor-Massey", "Mount Olive-Silverstone-Jamestown",
    "Roncesvalles", "Trinity-Bellwoods", "Mount Pleasant East", "Humbermede",
    "Keelesdale-Eglinton West", "Highland Creek", "Thorncliffe Park",
    "Rosedale-Moore Park", "Junction Area", "Lansing-Westgate", "Regent Park",
    "Thistletown-Beaumond Heights", "Markland Wood", "Guildwood", "Henry Farm",
    "Maple Leaf", "Danforth East York", "Woburn", "High Park-Swansea", "Milliken",
    "Victoria Village", "Yorkdale-Glen Park", "Glenfield-Jane Heights",
    "City of Toronto", "High Park North", "Waterfront Communities-The Island",
    "Centennial Scarborough", "The Beaches", "Agincourt South-Malvern West",
    "West Hill", "Englemount-Lawrence", "Rockcliffe-Smythe",
    "Dovercourt-Wallace Emerson-Junction", "Stonegate-Queensway", "Bathurst Manor",
    "Newtonbrook West", "Rustic", "Forest Hill South",
    "Mimico (includes Humber Bay Shores)", "Woodbine-Lumsden", "Caledonia-Fairbank",
    "Greenwood-Coxwell", "Annex", "Eglinton East", "Malvern", "Hillcrest Village",
    "Willowdale West", "Little Portugal", "Black Creek", "Kennedy Park", "New Toronto",
    "University", "East End-Danforth", "Bendale", "Elms-Old Rexdale", "Blake-Jones",
    "West Humber-Clairville", "Dufferin Grove", "Briar Hill-Belgravia",
    "Willowridge-Martingrove-Richview", "Pelmo Park-Humberlea",
    "Cabbagetown-South St. James Town", "Weston-Pelham Park", "Moss Park",
    "Forest Hill North", "Weston", "Rouge", "Newtonbrook East", "Humber Summit"
>>

(***************************************************************************)
(* serde_json::Value, as far as the program looks at it.                   *)
(***************************************************************************)
\* Value::String(s) and Value::Number(n): t is the variant, s or n its payload.
JsonString(s) == [t |-> "String", s |-> s, n |-> 0]
JsonNumber(n) == [t |-> "Number", s |-> "", n |-> n]

\* get_name without the truncation at " (".
get_name_untruncated(data) ==
    IF "AREA_NAME" \notin DOMAIN data THEN None
    ELSE IF data["AREA_NAME"].t # "String" THEN None
    ELSE Some(neighbourhood_names_normalizer(data["AREA_NAME"].s))

\* fn get_name(data) -> Result<String, ()>
get_name(data) ==
    IF "AREA_NAME" \notin DOMAIN data THEN None
    ELSE IF data["AREA_NAME"].t # "String" THEN None
    ELSE Some(neighbourhood_names_normalizer(
                  SplitFirst(data["AREA_NAME"].s, " (")))

(***************************************************************************)
(* The stages of main, as functions of what they read.                     *)
(***************************************************************************)
PopulationTag == "Population, 2016"

\* The last row tagged "Population, 2016" instead of the first.
LastPopulationRow(rows) ==
    LET tagged == {r \in 1..Len(rows) : rows[r].tag = PopulationTag}
    IN  IF tagged = {} THEN None
        ELSE Some(rows[CHOOSE r \in tagged : \A q \in tagged : q <= r].cells)

\* census.into_iter().filter_map(Population2016(e) => Some(e)).next()
FirstPopulationRow(rows) ==
    LET tagged == {r \in 1..Len(rows) : rows[r].tag = PopulationTag}
    IN  IF tagged = {} THEN None
        ELSE Some(rows[CHOOSE r \in tagged : \A q \in tagged : r <= q].cells)

\* The filter_map closure over the row's (column, cell) pairs:
\* Some((normalized column, parsed cell)) or None.
PopulationEntry(n, pop) ==
    IF IsSome(pop)
    THEN LET parsed == ParseU32(StripCommas(Unwrapped(pop)))
         IN  IF IsSome(parsed)
             THEN Some(<<neighbourhood_names_normalizer(n), Unwrapped(parsed)>>)
             ELSE None
    ELSE None

\* A counter that starts at the number of names seen so far.
IncrementFromLen(m, k) ==
    MapInsert(m, k, (IF k \in DOMAIN m THEN m[k] ELSE Cardinality(DOMAIN m)) + 1)

\* A counter that starts at one: the first record counts twice.
IncrementFromOne(m, k) ==
    MapInsert(m, k, (IF k \in DOMAIN m THEN m[k] ELSE 1) + 1)

\* *m.entry(k).or_insert(0u32) += 1
Increment(m, k) == MapInsert(m, k, (IF k \in DOMAIN m THEN m[k] ELSE 0) + 1)

\* The body of the loop over covid_data.
CountRecord(m, e) ==
    IF IsSome(e.neighbourhood)
    THEN Increment(m, neighbourhood_names_normalizer(Unwrapped(e.neighbourhood)))
    ELSE m

\* An insert that throws the bag's other properties away.
PropertiesInsertAlone(properties, k, v) == [x \in {k} |-> v]

\* An insert that leaves "population" out.
PropertiesInsertCountOnly(properties, k, v) ==
    IF k = "population" THEN properties ELSE MapInsert(properties, k, v)

\* properties.insert(k, v) on the serde_json::Map
PropertiesInsert(properties, k, v) == MapInsert(properties, k, v)

NoPanic == "none"
PanicPopulationRow == "census has no Population, 2016 row: Option::unwrap"
PanicGetName == "get_name: Result::unwrap"
PanicCaseCount == "per_neighbourhood_count.get: Option::unwrap"
PanicPopulation == "populations.get: Option::unwrap"
PanicUnimplemented == "unimplemented!()"

\* The body of the loop over neighbourhoods.features: the feature as the
\* body leaves it, and the panic it ends in, if any.
EnrichFeature(feature, counts, pops) ==
    IF IsNone(feature.properties)
    THEN [feature |-> feature, panic |-> NoPanic]
    ELSE
    LET properties == Unwrapped(feature.properties)
        name == get_name(properties)
    IN  IF IsNone(name)
        THEN [feature |-> feature, panic |-> PanicGetName]
        ELSE
        LET covid_case_count == MapGet(counts, Unwrapped(name))
        IN  IF IsNone(covid_case_count)
            THEN [feature |-> feature, panic |-> PanicCaseCount]
            ELSE
            LET counted == PropertiesInsert(properties, "covid_case_count",
                               JsonNumber(Unwrapped(covid_case_count)))
                population == MapGet(pops, Unwrapped(name))
            IN  IF IsNone(population)
                THEN [feature |-> [feature EXCEPT !.properties = Some(counted)],
                      panic |-> PanicPopulation]
                ELSE [feature |->
                        [feature EXCEPT !.properties =
                            Some(PropertiesInsert(counted, "population",
                                     JsonNumber(Unwrapped(population))))],
                      panic |-> NoPanic]

(***************************************************************************)
(* Inputs.                                                                 *)
(***************************************************************************)
BoundedSeq(S, n) == UNION {[1..k -> S] : k \in 0..n}

MimicoColumn == "Mimico (includes Humber Bay Shores)"

\* Census rows: the three variants of CensusEntryCategory.
CensusRows ==
    { [tag |-> "Other", cells |-> EmptyMap],
      [tag |-> "Neighbourhood Number",
       cells |-> (MimicoColumn :> Some("17"))],
      [tag |-> PopulationTag,
       cells |-> (MimicoColumn :> Some("33,964") @@ "Rouge" :> Some("46,496"))],
      [tag |-> PopulationTag,
       cells |-> ("Rouge" :> Some("1"))] }

CovidEntries ==
    { [neighbourhood |-> None], [neighbourhood |-> Some("Mimico")],
      [neighbourhood |-> Some("Rouge")] }

Features ==
    { [geometry |-> "MultiPolygon", properties |-> None],
      [geometry |-> "Polygon A", properties |-> Some(("_id" :> JsonNumber(1)))],
      [geometry |-> "Polygon B",
       properties |-> Some(("AREA_NAME" :> JsonNumber(17)))],
      [geometry |-> "Polygon C",
       properties |-> Some(("AREA_NAME" :> JsonString(MimicoColumn \o " (17)")
                            @@ "_id" :> JsonNumber(2)))],
      [geometry |-> "Polygon D",
       properties |-> Some(("AREA_NAME" :> JsonString("Rouge (131)")))],
      [geometry |-> "Polygon E",
       properties |-> Some(("AREA_NAME" :> JsonString("Mimico (17)")
                            @@ "population" :> JsonNumber(5)
                            @@ "covid_case_count" :> JsonString("n/a")))] }

\* The variants of geojson::GeoJson.
GeoJsonInputs ==
    { [kind |-> "FeatureCollection", features |-> fs] :
          fs \in BoundedSeq(Features, MaxFeatures) }
    \cup { [kind |-> "Feature", features |-> <<>>],
           [kind |-> "Geometry", features |-> <<>>] }

AggEntries ==
    { [neighbourhood |-> None], [neighbourhood |-> Some("Mimico")],
      [neighbourhood |-> Some("Danforth East York")],
      [neighbourhood |-> Some("Danforth-East York")] }

PopColumns == {MimicoColumn, "Mimico", "Rouge"}

PopCells ==
    { None, Some("12,345"), Some("n/a"), Some(""), Some("7"), Some("+7"),
      Some("-7"), Some(",0,0,8,"), Some("1 000"), Some("4294967296") }

PopRows ==
    UNION { [cols -> PopCells] :
                cols \in {c \in SUBSET PopColumns : Cardinality(c) <= MaxCells} }

RawNames ==
    {NEIGHBOURHOOD_NAMES[r] : r \in 1..Len(NEIGHBOURHOOD_NAMES)}
    \cup {NameVariantMap[a][1] : a \in 1..Len(NameVariantMap)}
    \cup {NameVariantMap[a][2] : a \in 1..Len(NameVariantMap)}
    \cup { MimicoColumn \o " (17)", "Rouge (131)", "Briar Hill - Belgravia (108)",
           "Briar Hill-Belgravia (also known as X)", "Weston-Pellam Park (91)" }

(***************************************************************************)
(* State.                                                                  *)
(***************************************************************************)
VARIABLES
    neighbourhoods,           \* the parsed Neighbourhoods.geojson
    covid_data,               \* Vec<CovidEntry>
    census,                   \* Vec<CensusEntryCategory>
    selected,                 \* the row `populations` of line 92, once chosen
    pending,                  \* its columns the iterator has not yet yielded
    populations,              \* HashMap<String, u32> of line 100
    per_neighbourhood_count,  \* HashMap<String, u32> of line 117
    i,                        \* records of covid_data counted
    features,                 \* the collection's features, mutated in place
    j,                        \* features enriched
    out,                      \* docs/out.geojson
    pc,                       \* where main is
    panic,                    \* the panic main ended in
    rerun,                    \* a second count, over the records reordered
    names                     \* a raw name and the join keys made of it

vars == << neighbourhoods, covid_data, census, selected, pending, populations,
           per_neighbourhood_count, i, features, j, out, pc, panic, rerun, names >>

NoRerun == [data |-> <<>>, count |-> EmptyMap, i |-> 0]
NoNames == [raw |-> "", boundary |-> None, case |-> None, census |-> None,
            case_again |-> None, boundary_again |-> None]

Init ==
    /\ neighbourhoods \in GeoJsonInputs
    /\ covid_data \in BoundedSeq(CovidEntries, MaxRecords)
    /\ census \in BoundedSeq(CensusRows, MaxRows)
    /\ selected = None
    /\ pending = {}
    /\ populations = EmptyMap
    /\ per_neighbourhood_count = EmptyMap
    /\ i = 0
    /\ features = <<>>
    /\ j = 0
    /\ out = None
    /\ pc = "select"
    /\ panic = NoPanic
    /\ rerun = NoRerun
    /\ names = NoNames

(***************************************************************************)
(* main, lines 92-149.                                                     *)
(***************************************************************************)
\* let populations = census...next().unwrap();
SelectPopulations ==
    /\ pc = "select"
    /\ LET row == FirstPopulationRow(census)
       IN  IF IsNone(row)
           THEN /\ pc' = "panicked"
                /\ panic' = PanicPopulationRow
                /\ UNCHANGED <<selected, pending>>
           ELSE /\ selected' = row
                /\ pending' = DOMAIN Unwrapped(row)
                /\ pc' = "populations"
                /\ UNCHANGED panic
    /\ UNCHANGED << neighbourhoods, covid_data, census, populations,
                    per_neighbourhood_count, i, features, j, out, rerun, names >>

\* One (column, cell) pair of the row goes through filter_map into the
\* collected HashMap.  The row is a HashMap: its pairs come in any order.
CollectPopulation ==
    /\ pc = "populations"
    /\ \E n \in pending :
          LET entry == PopulationEntry(n, Unwrapped(selected)[n])
          IN  /\ populations' =
                    IF IsSome(entry)
                    THEN MapInsert(populations, Unwrapped(entry)[1],
                                   Unwrapped(entry)[2])
                    ELSE populations
              /\ pending' = pending \ {n}
    /\ UNCHANGED << neighbourhoods, covid_data, census, selected,
                    per_neighbourhood_count, i, features, j, out, pc, panic,
                    rerun, names >>

\* .collect::<HashMap<_, _>>() returns.
PopulationsCollected ==
    /\ pc = "populations"
    /\ pending = {}
    /\ pc' = "count"
    /\ UNCHANGED << neighbourhoods, covid_data, census, selected, pending,
                    populations, per_neighbourhood_count, i, features, j, out,
                    panic, rerun, names >>

\* for e in covid_data.iter() { ... }: one iteration.
CountCase ==
    /\ pc = "count"
    /\ i < Len(covid_data)
    /\ per_neighbourhood_count' =
           CountRecord(per_neighbourhood_count, covid_data[i + 1])
    /\ i' = i + 1
    /\ UNCHANGED << neighbourhoods, covid_data, census, selected, pending,
                    populations, features, j, out, pc, panic, rerun, names >>

\* The loop over covid_data ends; match neighbourhoods { ... }.
MatchGeoJson ==
    /\ pc = "count"
    /\ i = Len(covid_data)
    /\ IF neighbourhoods.kind = "FeatureCollection"
       THEN /\ features' = neighbourhoods.features
            /\ pc' = "enrich"
            /\ UNCHANGED panic
       ELSE /\ pc' = "panicked"
            /\ panic' = PanicUnimplemented
            /\ UNCHANGED features
    /\ UNCHANGED << neighbourhoods, covid_data, census, selected, pending,
                    populations, per_neighbourhood_count, i, j, out, rerun,
                    names >>

\* for feature in neighbourhoods.features.iter_mut() { ... }: one iteration.
Enrich ==
    /\ pc = "enrich"
    /\ j < Len(features)
    /\ LET r == EnrichFeature(features[j + 1], per_neighbourhood_count,
                              populations)
       IN  /\ features' = [features EXCEPT ![j + 1] = r.feature]
           /\ IF r.panic = NoPanic
              THEN /\ j' = j + 1
                   /\ UNCHANGED <<pc, panic>>
              ELSE /\ pc' = "panicked"
                   /\ panic' = r.panic
                   /\ UNCHANGED j
    /\ UNCHANGED << neighbourhoods, covid_data, census, selected, pending,
                    populations, per_neighbourhood_count, i, out, rerun, names >>

\* std::fs::write(out_path, neighbourhoods.to_string())?; Ok(())
WriteOut ==
    /\ pc = "enrich"
    /\ j = Len(features)
    /\ out' = Some(features)
    /\ pc' = "done"
    /\ UNCHANGED << neighbourhoods, covid_data, census, selected, pending,
                    populations, per_neighbourhood_count, i, features, j,
                    panic, rerun, names >>

\* std::fs::write returns Err: the `?` ends main with the io::Error.
WriteFails ==
    /\ pc = "enrich"
    /\ j = Len(features)
    /\ pc' = "failed"
    /\ UNCHANGED << neighbourhoods, covid_data, census, selected, pending,
                    populations, per_neighbourhood_count, i, features, j, out,
                    panic, rerun, names >>

Next ==
    \/ SelectPopulations
    \/ CollectPopulation
    \/ PopulationsCollected
    \/ CountCase
    \/ MatchGeoJson
    \/ Enrich
    \/ WriteOut
    \/ WriteFails

Spec == Init /\ [][Next]_vars

(***************************************************************************)
(* The count loop alone, run over the records and then over the same       *)
(* records in another order.                                               *)
(***************************************************************************)
Reorderings(n) == {p \in [1..n -> 1..n] : \A a, b \in 1..n : p[a] = p[b] => a = b}

InitAgg ==
    /\ covid_data \in BoundedSeq(AggEntries, MaxAggRecords)
    /\ \E p \in Reorderings(Len(covid_data)) :
          rerun = [data |-> [k \in 1..Len(covid_data) |-> covid_data[p[k]]],
                   count |-> EmptyMap, i |-> 0]
    /\ neighbourhoods = [kind |-> "FeatureCollection", features |-> <<>>]
    /\ census = <<>>
    /\ selected = None
    /\ pending = {}
    /\ populations = EmptyMap
    /\ per_neighbourhood_count = EmptyMap
    /\ i = 0
    /\ features = <<>>
    /\ j = 0
    /\ out = None
    /\ pc = "count"
    /\ panic = NoPanic
    /\ names = NoNames

\* The loop over covid_data ends.
CountsDone ==
    /\ pc = "count"
    /\ i = Len(covid_data)
    /\ pc' = "recount"
    /\ UNCHANGED << neighbourhoods, covid_data, census, selected, pending,
                    populations, per_neighbourhood_count, i, features, j, out,
                    panic, rerun, names >>

\* One iteration of the same loop over the reordered records.
RecountCase ==
    /\ pc = "recount"
    /\ rerun.i < Len(rerun.data)
    /\ rerun' = [rerun EXCEPT !.count = CountRecord(@, rerun.data[rerun.i + 1]),
                              !.i = @ + 1]
    /\ UNCHANGED << neighbourhoods, covid_data, census, selected, pending,
                    populations, per_neighbourhood_count, i, features, j, out,
                    pc, panic, names >>

RecountDone ==
    /\ pc = "recount"
    /\ rerun.i = Len(rerun.data)
    /\ pc' = "counted"
    /\ UNCHANGED << neighbourhoods, covid_data, census, selected, pending,
                    populations, per_neighbourhood_count, i, features, j, out,
                    panic, rerun, names >>

NextAgg == CountCase \/ CountsDone \/ RecountCase \/ RecountDone

SpecAgg == InitAgg /\ [][NextAgg]_vars

(***************************************************************************)
(* The population table alone, from any selected row.                      *)
(***************************************************************************)
InitPop ==
    /\ \E row \in PopRows :
          /\ census = <<[tag |-> PopulationTag, cells |-> row]>>
          /\ selected = Some(row)
          /\ pending = DOMAIN row
    /\ neighbourhoods = [kind |-> "FeatureCollection", features |-> <<>>]
    /\ covid_data = <<>>
    /\ populations = EmptyMap
    /\ per_neighbourhood_count = EmptyMap
    /\ i = 0
    /\ features = <<>>
    /\ j = 0
    /\ out = None
    /\ pc = "populations"
    /\ panic = NoPanic
    /\ rerun = NoRerun
    /\ names = NoNames

NextPop == CollectPopulation \/ PopulationsCollected

SpecPop == InitPop /\ [][NextPop]_vars

(***************************************************************************)
(* The join key of one raw name, as each of the three datasets' readers    *)
(* makes it, and the normalizer applied to its own result.                 *)
(***************************************************************************)
InitNorm ==
    /\ \E raw \in RawNames : names = [NoNames EXCEPT !.raw = raw]
    /\ neighbourhoods = [kind |-> "FeatureCollection", features |-> <<>>]
    /\ covid_data = <<>>
    /\ census = <<>>
    /\ selected = None
    /\ pending = {}
    /\ populations = EmptyMap
    /\ per_neighbourhood_count = EmptyMap
    /\ i = 0
    /\ features = <<>>
    /\ j = 0
    /\ out = None
    /\ pc = "names"
    /\ panic = NoPanic
    /\ rerun = NoRerun

NamesOnly ==
    UNCHANGED << neighbourhoods, covid_data, census, selected, pending,
                 populations, per_neighbourhood_count, i, features, j, out, pc,
                 panic, rerun >>

\* get_name(properties) on a bag whose AREA_NAME is the raw name (line 130).
NameFromBoundary ==
    /\ pc = "names"
    /\ IsNone(names.boundary)
    /\ names' = [names EXCEPT
                   !.boundary = get_name(("AREA_NAME" :> JsonString(names.raw)))]
    /\ NamesOnly

\* The key of the count map for a record with this neighbourhood (line 121).
NameFromCase ==
    /\ pc = "names"
    /\ IsNone(names.case)
    /\ names' = [names EXCEPT
                   !.case = Some(CHOOSE k \in DOMAIN CountRecord(EmptyMap,
                                     [neighbourhood |-> Some(names.raw)]) : TRUE)]
    /\ NamesOnly

\* The key of the population map for a column of this name (line 105).
NameFromCensus ==
    /\ pc = "names"
    /\ IsNone(names.census)
    /\ names' = [names EXCEPT
                   !.census = Some(Unwrapped(PopulationEntry(names.raw, Some("1")))[1])]
    /\ NamesOnly

\* neighbourhood_names_normalizer on a name it returned.
NormalizeAgain ==
    /\ pc = "names"
    /\ IsSome(names.case)
    /\ IsNone(names.case_again)
    /\ names' = [names EXCEPT
                   !.case_again =
                       Some(neighbourhood_names_normalizer(Unwrapped(names.case)))]
    /\ NamesOnly

\* get_name on a name it returned.
GetNameAgain ==
    /\ pc = "names"
    /\ IsSome(names.boundary)
    /\ IsNone(names.boundary_again)
    /\ names' = [names EXCEPT
                   !.boundary_again =
                       get_name(("AREA_NAME" :> JsonString(Unwrapped(names.boundary))))]
    /\ NamesOnly

NextNorm ==
    \/ NameFromBoundary
    \/ NameFromCase
    \/ NameFromCensus
    \/ NormalizeAgain
    \/ GetNameAgain

SpecNorm == InitNorm /\ [][NextNorm]_vars

(***************************************************************************)
(* Properties of the enricher (Spec).                                      *)
(***************************************************************************)
InputFeatures == neighbourhoods.features
FeatureCount == Len(InputFeatures)

\* The canonical name of an input feature, where it has one.
FeatureName(k) ==
    IF IsSome(InputFeatures[k].properties)
    THEN get_name(Unwrapped(InputFeatures[k].properties))
    ELSE None

\* main has reached the loop over the features: both maps are complete.
Enriching ==
    \/ pc \in {"enrich", "done", "failed"}
    \/ pc = "panicked" /\ panic \in {PanicGetName, PanicCaseCount, PanicPopulation}

\* Feature k has a canonical name that one of the two maps lacks.
UnjoinedAt(k) ==
    /\ IsSome(FeatureName(k))
    /\ \/ Unwrapped(FeatureName(k)) \notin DOMAIN per_neighbourhood_count
       \/ Unwrapped(FeatureName(k)) \notin DOMAIN populations

IsInteger(properties, key) ==
    key \in DOMAIN properties /\ properties[key].t = "Number"

\* C1: if some feature's canonical name is missing from the count map or
\* from the population map, the run never writes the output and never gets
\* past that feature; the iteration that reaches the feature panics at the
\* failed lookup (the count lookup first, then the population lookup), and
\* nothing is put in place of the missing value: a missing count leaves the
\* feature as it was, a missing population leaves it with the count only.
C1_JoinFailureIsFatal ==
    (Enriching /\ \E k \in 1..FeatureCount : UnjoinedAt(k)) =>
        /\ out = None
        /\ pc \in {"enrich", "panicked"}
        /\ \A k \in 1..FeatureCount : UnjoinedAt(k) => j < k
        /\ (pc = "panicked" /\ UnjoinedAt(j + 1)) =>
              LET name == Unwrapped(FeatureName(j + 1))
                  before == InputFeatures[j + 1]
              IN  IF name \notin DOMAIN per_neighbourhood_count
                  THEN /\ panic = PanicCaseCount
                       /\ features[j + 1] = before
                  ELSE /\ panic = PanicPopulation
                       /\ features[j + 1].geometry = before.geometry
                       /\ features[j + 1].properties =
                              Some(MapInsert(Unwrapped(before.properties),
                                     "covid_case_count",
                                     JsonNumber(per_neighbourhood_count[name])))

\* C1 witness: the second feature is the unjoined one; the first was
\* enriched, the run panicked at the second and wrote nothing.
C1_Witness ==
    /\ pc = "panicked"
    /\ j = 1
    /\ UnjoinedAt(2)
    /\ IsSome(FeatureName(1))
    /\ panic = PanicPopulation
    /\ out = None

\* C2 as stated: whenever an output document is written, every feature of
\* the input has a property bag there with both integer properties.
C2_EveryFeatureEnriched ==
    IsSome(out) =>
        /\ Len(Unwrapped(out)) = FeatureCount
        /\ \A k \in 1..FeatureCount :
              /\ IsSome(Unwrapped(out)[k].properties)
              /\ IsInteger(Unwrapped(Unwrapped(out)[k].properties), "covid_case_count")
              /\ IsInteger(Unwrapped(Unwrapped(out)[k].properties), "population")

\* C2 amended: whenever an output document is written, every feature that
\* has a property bag has both integer properties in it, and a feature that
\* has none is there as it was; a feature whose bag has no string AREA_NAME
\* keeps the run from writing anything.
C2_EveryBagEnriched ==
    /\ IsSome(out) =>
          /\ Len(Unwrapped(out)) = FeatureCount
          /\ \A k \in 1..FeatureCount :
                IF IsNone(InputFeatures[k].properties)
                THEN Unwrapped(out)[k] = InputFeatures[k]
                ELSE /\ IsSome(Unwrapped(out)[k].properties)
                     /\ IsInteger(Unwrapped(Unwrapped(out)[k].properties),
                                  "covid_case_count")
                     /\ IsInteger(Unwrapped(Unwrapped(out)[k].properties),
                                  "population")
    /\ (Enriching /\ \E k \in 1..FeatureCount :
                        /\ IsSome(InputFeatures[k].properties)
                        /\ IsNone(FeatureName(k))) =>
          /\ out = None
          /\ pc \in {"enrich", "panicked"}

\* C2 witness: a document was written in which one feature has no property
\* bag and another has both numbers.
C2_Witness ==
    /\ IsSome(out)
    /\ \E k, l \in 1..FeatureCount :
          /\ IsNone(Unwrapped(out)[k].properties)
          /\ IsSome(Unwrapped(out)[l].properties)
          /\ IsInteger(Unwrapped(Unwrapped(out)[l].properties), "population")

\* C3 as stated: in a written document the features are as many as in the
\* input, each with its geometry and with every property it had, key and
\* value, the bag having grown by covid_case_count and population only.
C3_NothingOverwritten ==
    IsSome(out) =>
        /\ Len(Unwrapped(out)) = FeatureCount
        /\ \A k \in 1..FeatureCount :
              LET before == InputFeatures[k]
                  after == Unwrapped(out)[k]
              IN  /\ after.geometry = before.geometry
                  /\ IsSome(after.properties) = IsSome(before.properties)
                  /\ IsSome(before.properties) =>
                        /\ DOMAIN Unwrapped(after.properties) =
                               DOMAIN Unwrapped(before.properties)
                               \cup {"covid_case_count", "population"}
                        /\ \A key \in DOMAIN Unwrapped(before.properties) :
                               Unwrapped(after.properties)[key] =
                                   Unwrapped(before.properties)[key]

\* C3 amended: in a written document the features are as many as in the
\* input, each with its geometry; a feature without a bag is unchanged; a
\* bag keeps every property other than covid_case_count and population,
\* and these two hold the numbers of the two maps for the feature's name,
\* whatever the bag held under those keys before.
C3_OnlyTheTwoKeysWritten ==
    IsSome(out) =>
        /\ Len(Unwrapped(out)) = FeatureCount
        /\ \A k \in 1..FeatureCount :
              LET before == InputFeatures[k]
                  after == Unwrapped(out)[k]
              IN  /\ after.geometry = before.geometry
                  /\ IsSome(after.properties) = IsSome(before.properties)
                  /\ IsSome(before.properties) =>
                        LET old == Unwrapped(before.properties)
                            new == Unwrapped(after.properties)
                            name == Unwrapped(FeatureName(k))
                        IN  /\ DOMAIN new =
                                   DOMAIN old \cup {"covid_case_count", "population"}
                            /\ \A key \in DOMAIN old \ {"covid_case_count", "population"} :
                                   new[key] = old[key]
                            /\ new["covid_case_count"] =
                                   JsonNumber(per_neighbourhood_count[name])
                            /\ new["population"] = JsonNumber(populations[name])

\* C3 witness: a document was written in which a feature that came with a
\* population property has another value under that key.
C3_Witness ==
    /\ IsSome(out)
    /\ \E k \in 1..FeatureCount :
          /\ IsSome(InputFeatures[k].properties)
          /\ "population" \in DOMAIN Unwrapped(InputFeatures[k].properties)
          /\ Unwrapped(Unwrapped(out)[k].properties)["population"] #
                 Unwrapped(InputFeatures[k].properties)["population"]
          /\ Unwrapped(Unwrapped(out)[k].properties)["AREA_NAME"] =
                 Unwrapped(InputFeatures[k].properties)["AREA_NAME"]

(***************************************************************************)
(* Properties of the row selection (Spec).                                 *)
(***************************************************************************)
PopulationRowsAt == {r \in 1..Len(census) : census[r].tag = PopulationTag}

\* C5 as stated: unless the census holds exactly one row tagged
\* "Population, 2016", the run panics on the missing row, and there is no
\* selected row, no population map and no output.
C5_ExactlyOneRow ==
    (pc # "select" /\ Cardinality(PopulationRowsAt) # 1) =>
        /\ pc = "panicked"
        /\ panic = PanicPopulationRow
        /\ selected = None
        /\ populations = EmptyMap
        /\ out = None

\* C5 amended: with no row tagged "Population, 2016" the run panics on the
\* missing row, and there is no selected row, no population map and no
\* output; with one or more, the first of them is the selected row and the
\* run does not panic on the row.
C5_FirstRow ==
    /\ (pc # "select" /\ PopulationRowsAt = {}) =>
          /\ pc = "panicked"
          /\ panic = PanicPopulationRow
          /\ selected = None
          /\ populations = EmptyMap
          /\ out = None
    /\ (pc # "select" /\ PopulationRowsAt # {}) =>
          /\ panic # PanicPopulationRow
          /\ \E r \in PopulationRowsAt :
                /\ \A q \in PopulationRowsAt : r <= q
                /\ selected = Some(census[r].cells)
          /\ \A key \in DOMAIN populations :
                \E n \in DOMAIN Unwrapped(selected) :
                    neighbourhood_names_normalizer(n) = key

\* C5 witness: the census holds two different rows tagged "Population,
\* 2016" and the run went on to write its output.
C5_Witness ==
    /\ Cardinality(PopulationRowsAt) = 2
    /\ census[1].cells # census[2].cells
    /\ IsSome(out)
    /\ FeatureCount > 0

(***************************************************************************)
(* Properties of the count loop (SpecAgg).                                 *)
(***************************************************************************)
\* The records among the first n whose neighbourhood is present and
\* normalizes to name.
RecordsOf(name, n) ==
    {k \in 1..n :
        /\ IsSome(covid_data[k].neighbourhood)
        /\ neighbourhood_names_normalizer(Unwrapped(covid_data[k].neighbourhood))
               = name}

NamesCounted(n) ==
    {neighbourhood_names_normalizer(Unwrapped(covid_data[k].neighbourhood)) :
        k \in {l \in 1..n : IsSome(covid_data[l].neighbourhood)}}

\* C6: after any number of records, the count map has exactly the
\* canonical names of the records read so far whose neighbourhood is
\* present, each with the number of those records (so at least 1); a record
\* without a neighbourhood changes nothing and ends nothing, and the variant
\* "Danforth East York" is counted under "Danforth-East York".
C6_CountsAreExact ==
    /\ DOMAIN per_neighbourhood_count = NamesCounted(i)
    /\ \A name \in DOMAIN per_neighbourhood_count :
          /\ per_neighbourhood_count[name] = Cardinality(RecordsOf(name, i))
          /\ per_neighbourhood_count[name] >= 1
    /\ "Danforth East York" \notin DOMAIN per_neighbourhood_count
    /\ pc # "panicked"

\* C6 witness: all records are counted; one had no neighbourhood, one was
\* "Danforth East York" and one "Danforth-East York", and the map is
\* "Danforth-East York" -> 2.
C6_Witness ==
    /\ pc = "recount"
    /\ i = 3
    /\ \E a, b, c \in 1..3 :
          /\ covid_data[a].neighbourhood = None
          /\ covid_data[b].neighbourhood = Some("Danforth East York")
          /\ covid_data[c].neighbourhood = Some("Danforth-East York")
    /\ DOMAIN per_neighbourhood_count = {"Danforth-East York"}
    /\ per_neighbourhood_count["Danforth-East York"] = 2

\* C7: the count map of the records and the count map of the same records
\* in any other order are the same map.
C7_OrderIndependent ==
    pc = "counted" => rerun.count = per_neighbourhood_count

\* C7 witness: both counts are finished, the second over the records in
\* another order, with two names counted.
C7_Witness ==
    /\ pc = "counted"
    /\ rerun.data # covid_data
    /\ Cardinality(DOMAIN per_neighbourhood_count) = 2
    /\ rerun.count = per_neighbourhood_count

(***************************************************************************)
(* Properties of the population table (SpecPop).                           *)
(***************************************************************************)
RECURSIVE WithoutCommas(_)
WithoutCommas(s) ==
    IF s = "" THEN ""
    ELSE IF SubSeq(s, 1, 1) = "," THEN WithoutCommas(SubSeq(s, 2, Len(s)))
    ELSE SubSeq(s, 1, 1) \o WithoutCommas(SubSeq(s, 2, Len(s)))

Unsigned(s) == IF Len(s) > 0 /\ SubSeq(s, 1, 1) = "+" THEN SubSeq(s, 2, Len(s)) ELSE s

\* s writes a non-negative integer: digits, after an optional plus sign.
IsNumeral(s) ==
    /\ Len(Unsigned(s)) >= 1
    /\ \A k \in 1..Len(Unsigned(s)) : SubSeq(Unsigned(s), k, k) \in Digits

RECURSIVE WithoutLeadingZeros(_)
WithoutLeadingZeros(s) ==
    IF Len(s) > 1 /\ SubSeq(s, 1, 1) = "0"
    THEN WithoutLeadingZeros(SubSeq(s, 2, Len(s)))
    ELSE s

\* The numeral s as the decimal notation of its value.
Decimal(s) == WithoutLeadingZeros(Unsigned(s))

RECURSIVE DecimalOf(_)
\* The decimal notation of the number n.
DecimalOf(n) ==
    LET d == CHOOSE c \in Digits : DigitVal(c) = n % 10
    IN  IF n < 10 THEN d ELSE DecimalOf(n \div 10) \o d

RECURSIVE DecimalLeq(_, _)
\* a <= b, for decimal notations of the same length.
DecimalLeq(a, b) ==
    IF a = "" THEN TRUE
    ELSE IF SubSeq(a, 1, 1) = SubSeq(b, 1, 1)
         THEN DecimalLeq(SubSeq(a, 2, Len(a)), SubSeq(b, 2, Len(b)))
         ELSE DigitVal(SubSeq(a, 1, 1)) < DigitVal(SubSeq(b, 1, 1))

\* The value of the numeral s is at most 4294967295.
FitsU32(s) ==
    \/ Len(Decimal(s)) < Len("4294967295")
    \/ Len(Decimal(s)) = Len("4294967295") /\ DecimalLeq(Decimal(s), "4294967295")

Row == Unwrapped(selected)
Visited == DOMAIN Row \ pending

\* Column n of the row holds a numeral (commas apart).
NumeralCell(n) == IsSome(Row[n]) /\ IsNumeral(WithoutCommas(Unwrapped(Row[n])))

\* Column n of the row holds a numeral (commas apart) that fits 32 bits.
U32Cell(n) == NumeralCell(n) /\ FitsU32(WithoutCommas(Unwrapped(Row[n])))

CellDecimal(n) == Decimal(WithoutCommas(Unwrapped(Row[n])))

\* C9 as stated: every visited column whose cell, commas removed, writes a
\* non-negative integer has its normalized name in the population map, with
\* that integer when no other such column has the same normalized name;
\* every entry of the map is the normalized name and the integer of such a
\* column; no cell ends the run.
C9_EveryNumeralEntered ==
    /\ \A n \in Visited :
          NumeralCell(n) =>
              /\ neighbourhood_names_normalizer(n) \in DOMAIN populations
              /\ (\A m \in Visited :
                      (NumeralCell(m) /\ neighbourhood_names_normalizer(m) =
                                           neighbourhood_names_normalizer(n))
                          => m = n)
                 => DecimalOf(populations[neighbourhood_names_normalizer(n)])
                        = CellDecimal(n)
    /\ \A key \in DOMAIN populations :
          \E n \in Visited :
              /\ NumeralCell(n)
              /\ neighbourhood_names_normalizer(n) = key
              /\ DecimalOf(populations[key]) = CellDecimal(n)
    /\ pc # "panicked"

\* C9 amended: the same, for the cells that write a non-negative integer of
\* at most 4294967295 (32 bits): a larger one is passed over like a cell
\* that is no number.  "12,345" enters 12345.
C9_EveryU32Entered ==
    /\ \A n \in Visited :
          U32Cell(n) =>
              /\ neighbourhood_names_normalizer(n) \in DOMAIN populations
              /\ (\A m \in Visited :
                      (U32Cell(m) /\ neighbourhood_names_normalizer(m) =
                                        neighbourhood_names_normalizer(n))
                          => m = n)
                 => /\ DecimalOf(populations[neighbourhood_names_normalizer(n)])
                           = CellDecimal(n)
                    /\ Row[n] = Some("12,345") =>
                           populations[neighbourhood_names_normalizer(n)] = 12345
    /\ \A key \in DOMAIN populations :
          \E n \in Visited :
              /\ U32Cell(n)
              /\ neighbourhood_names_normalizer(n) = key
              /\ DecimalOf(populations[key]) = CellDecimal(n)
    /\ pc # "panicked"

\* C9 witness: the row is read; a column held "12,345", another held a
\* number too large for 32 bits, and the map is the first column's
\* normalized name -> 12345.
C9_Witness ==
    /\ pc = "count"
    /\ \E n, m \in DOMAIN Row :
          /\ Row[n] = Some("12,345")
          /\ Row[m] = Some("4294967296")
          /\ DOMAIN populations = {neighbourhood_names_normalizer(n)}
          /\ populations[neighbourhood_names_normalizer(n)] = 12345
          /\ neighbourhood_names_normalizer(m) # neighbourhood_names_normalizer(n)

(***************************************************************************)
(* Properties of the normalizer (SpecNorm).                                *)
(***************************************************************************)
Registry == {NEIGHBOURHOOD_NAMES[r] : r \in 1..Len(NEIGHBOURHOOD_NAMES)}
VariantKeys == {NameVariantMap[a][1] : a \in 1..Len(NameVariantMap)}
VariantTargets == {NameVariantMap[a][2] : a \in 1..Len(NameVariantMap)}

\* The variant table's target for s, s itself if it has none.
Canonical(s) ==
    IF s \in VariantKeys
    THEN NameVariantMap[CHOOSE a \in 1..Len(NameVariantMap) :
                            NameVariantMap[a][1] = s][2]
    ELSE s

HasParen(s) == \E k \in 1..(Len(s) - 1) : SubSeq(s, k, k + 1) = " ("

\* s up to its first " (", all of s if it has none.
BeforeParen(s) ==
    CHOOSE t \in {SubSeq(s, 1, k) : k \in 0..Len(s)} :
        /\ ~HasParen(t)
        /\ t = s \/ SubSeq(s, Len(t) + 1, Len(t) + 2) = " ("

\* C4: the normalizer returns every name of NEIGHBOURHOOD_NAMES unchanged.
C4_RegistryIsFixed ==
    (names.raw \in Registry /\ IsSome(names.case)) =>
        Unwrapped(names.case) = names.raw

\* C8 as stated: the boundary reader, the case reader and the census
\* reader all make the join key of a raw name by cutting it at its first
\* " (" and looking the rest up in the variant table, so the three keys of
\* one raw name are the same.
C8_OneKeyForAllSources ==
    (IsSome(names.boundary) /\ IsSome(names.case) /\ IsSome(names.census)) =>
        /\ names.boundary = Some(Canonical(BeforeParen(names.raw)))
        /\ names.case = Some(Canonical(BeforeParen(names.raw)))
        /\ names.census = Some(Canonical(BeforeParen(names.raw)))

\* C8 amended: the boundary reader alone cuts the raw name at its first
\* " (" before the lookup in the variant table; the case reader and the
\* census reader look the whole raw name up.  The three keys of one raw
\* name are the same when the name has no " (", and for the table's own
\* "Mimico (includes Humber Bay Shores)".
C8_BoundaryAloneTruncates ==
    /\ IsSome(names.boundary) =>
          names.boundary = Some(Canonical(BeforeParen(names.raw)))
    /\ IsSome(names.case) => names.case = Some(Canonical(names.raw))
    /\ IsSome(names.census) => names.census = Some(Canonical(names.raw))
    /\ (IsSome(names.boundary) /\ IsSome(names.case) /\ IsSome(names.census)
          /\ (~HasParen(names.raw) \/ names.raw = MimicoColumn)) =>
          /\ names.boundary = names.case
          /\ names.case = names.census

\* C8 witness: "Rouge (131)" gave the key "Rouge" as a boundary name and
\* the key "Rouge (131)" as a case name and as a census column.
C8_Witness ==
    /\ names.raw = "Rouge (131)"
    /\ names.boundary = Some("Rouge")
    /\ names.case = Some("Rouge (131)")
    /\ names.census = Some("Rouge (131)")

\* C10: for every key and every target of the variant table and every name
\* of NEIGHBOURHOOD_NAMES, the normalizer applied to its own result returns
\* that result, and so does get_name.
C10_Idempotent ==
    (names.raw \in VariantKeys \cup VariantTargets \cup Registry) =>
        /\ IsSome(names.case_again) => names.case_again = names.case
        /\ IsSome(names.boundary_again) => names.boundary_again = names.boundary

\* C10 witness: "Danforth East York" was normalized to "Danforth-East York"
\* and that again to "Danforth-East York".
C10_Witness ==
    /\ names.raw = "Danforth East York"
    /\ names.case = Some("Danforth-East York")
    /\ names.case_again = Some("Danforth-East York")
====
